---- MODULE Spec2Model ----
(***************************************************************************)
(* Model of src/utils/read_nasa.py: the conversion of one NASA battery     *)
(* .mat file into one flat table (read_nasa) and the script entry point    *)
(* that writes the table as CSV.                                           *)
(*                                                                         *)
(* Representation.                                                         *)
(*  - A date vector is a sequence of integers.  Components 1..5 are whole  *)
(*    numbers; component 6, the seconds with fraction, is held in          *)
(*    thousandths of a second (39.015 s is 39015), so int(vec[5]) is       *)
(*    vec[6] \div 1000 and (vec[5] - int(vec[5])) * 1000 is vec[6] % 1000. *)
(*  - A timestamp is a record with the fields of datetime.                 *)
(*  - A table (DataFrame) is [cols |-> sequence of column names,           *)
(*    rows |-> sequence of functions from the column names to cells].      *)
(*  - A call either returns or raises: Ok(v) or Raise(exc, at).            *)
(***************************************************************************)
EXTENDS Integers, Sequences, FiniteSets, TLC

VARIABLES file, pc, meta, i, dfs, df, csv, err

vars == <<file, pc, meta, i, dfs, df, csv, err>>

(***************************************************************************)
(* Bounds of the model.                                                    *)
(***************************************************************************)
MaxCycles == 2      \* cycles in a file with several cycles
MaxLen == 2         \* samples of one field: 0..MaxLen
MaxVecLen == 7      \* elements of a date vector: 5..MaxVecLen
MaxFields == 8      \* field entries of a nested data block: 5..MaxFields

Range(s) == {s[k] : k \in DOMAIN s}

Ok(v) == [ok |-> TRUE, val |-> v]
Raise(exc, at) == [ok |-> FALSE, exc |-> exc, at |-> at]

NoErr == [exc |-> "", at |-> ""]
NoMeta == [types |-> <<>>, start_times |-> <<>>, ambient_temps |-> <<>>]
NoTable == [cols |-> <<>>, rows |-> <<>>]
NoCsv == [header |-> <<>>, lines |-> <<>>]

\* the missing value pandas fills in; measured values of the model are naturals
NaN == -1

(***************************************************************************)
(* DATA_FIELDS: fields measured for each operation.                        *)
(***************************************************************************)
DATA_FIELDS ==
  [charge |-> <<"Voltage_measured", "Current_measured", "Temperature_measured",
                "Current_charge", "Voltage_charge", "Time">>,
   discharge |-> <<"Voltage_measured", "Current_measured", "Temperature_measured",
                   "Current_charge", "Voltage_charge", "Time", "Capacity">>,
   impedance |-> <<"Sense_current", "Battery_current", "Current_ratio",
                   "Battery_impedance", "Rectified_impedance", "Re", "Rct">>]

META_COLS == <<"type", "start_time", "ambient_temp">>

(***************************************************************************)
(* datetime(...): the constructor checks the range of every component.     *)
(***************************************************************************)
is_leap(y) == (y % 4 = 0) /\ ((y % 100 # 0) \/ (y % 400 = 0))

days_in_month(y, m) ==
  IF m = 2 THEN (IF is_leap(y) THEN 29 ELSE 28)
  ELSE IF m \in {4, 6, 9, 11} THEN 30 ELSE 31

datetime(year, month, day, hour, minute, second, microsecond) ==
  IF /\ year \in 1..9999
     /\ month \in 1..12
     /\ day \in 1..days_in_month(year, month)
     /\ hour \in 0..23
     /\ minute \in 0..59
     /\ second \in 0..59
     /\ microsecond \in 0..999999
  THEN Ok([year |-> year, month |-> month, day |-> day, hour |-> hour,
           minute |-> minute, second |-> second, microsecond |-> microsecond])
  ELSE Raise("ValueError", "datetime")

\* _datevec2datetime padding a short vector with zeros instead of raising
datevec2datetime_pad(vec) ==
  LET v == [k \in 1..6 |-> IF k <= Len(vec) THEN vec[k] ELSE 0]
  IN datetime(v[1], v[2], v[3], v[4], v[5], v[6] \div 1000, v[6] % 1000)

(***************************************************************************)
(* _datevec2datetime(vec): vec[0]..vec[5] are read (IndexError on a vector *)
(* with fewer than six elements, further elements are never looked at);    *)
(* the thousandths of the seconds are passed as microsecond.               *)
(***************************************************************************)
_datevec2datetime(vec) ==
  IF Len(vec) < 6 THEN Raise("IndexError", "_datevec2datetime")
  ELSE datetime(vec[1], vec[2], vec[3], vec[4], vec[5],
                vec[6] \div 1000, vec[6] % 1000)

(***************************************************************************)
(* _get_metadata(cycles): three lists, one entry per cycle, in cycle       *)
(* order; the first date vector that does not convert raises.              *)
(***************************************************************************)
_get_metadata(cycles) ==
  LET conv == [c \in 1..Len(cycles) |-> _datevec2datetime(cycles[c].time)]
      bad == {c \in 1..Len(cycles) : ~conv[c].ok}
  IN IF bad # {}
     THEN LET c == CHOOSE x \in bad : \A y \in bad : x <= y
          IN Raise(conv[c].exc, "_get_metadata")
     ELSE Ok([types |-> [c \in 1..Len(cycles) |-> cycles[c].type],
              start_times |-> [c \in 1..Len(cycles) |-> conv[c].val],
              ambient_temps |->
                [c \in 1..Len(cycles) |-> cycles[c].ambient_temperature]])

\* _get_metadata_at reading the first cycle's metadata whatever the index
get_metadata_at_first(m, c) ==
  <<m.types[1], m.start_times[1], m.ambient_temps[1]>>

(***************************************************************************)
(* _get_metadata_at(meta, i): the triple of cycle i (1-based here).        *)
(***************************************************************************)
_get_metadata_at(m, c) ==
  <<m.types[c], m.start_times[c], m.ambient_temps[c]>>

\* DataFrame putting a scalar in the first row only instead of in every row
DataFrame_first_row(cycle_dict, order) ==
  LET arrays == {f \in DOMAIN cycle_dict : ~cycle_dict[f].scalar}
  IN IF arrays = {}
     THEN Raise("ValueError", "DataFrame")
     ELSE IF \E f, g \in arrays : Len(cycle_dict[f].v) # Len(cycle_dict[g].v)
     THEN Raise("ValueError", "DataFrame")
     ELSE LET n == Len(cycle_dict[CHOOSE f \in arrays : TRUE].v)
          IN Ok([cols |-> SelectSeq(order, LAMBDA f : f \in DOMAIN cycle_dict),
                 rows |-> [k \in 1..n |->
                            [f \in DOMAIN cycle_dict |->
                               IF cycle_dict[f].scalar
                               THEN (IF k = 1 THEN cycle_dict[f].v ELSE NaN)
                               ELSE cycle_dict[f].v[k]]]])

(***************************************************************************)
(* DataFrame(cycle_dict): a column per key, in insertion order.  A value   *)
(* is a scalar or a sequence: the sequences must all have one length, the  *)
(* number of rows, and the scalars are repeated in every row; a dict of    *)
(* scalars alone has no index to take the number of rows from and raises.  *)
(***************************************************************************)
DataFrame(cycle_dict, order) ==
  LET arrays == {f \in DOMAIN cycle_dict : ~cycle_dict[f].scalar}
  IN IF arrays = {}
     THEN Raise("ValueError", "DataFrame")
     ELSE IF \E f, g \in arrays : Len(cycle_dict[f].v) # Len(cycle_dict[g].v)
     THEN Raise("ValueError", "DataFrame")
     ELSE LET n == Len(cycle_dict[CHOOSE f \in arrays : TRUE].v)
          IN Ok([cols |-> SelectSeq(order, LAMBDA f : f \in DOMAIN cycle_dict),
                 rows |-> [k \in 1..n |->
                            [f \in DOMAIN cycle_dict |->
                               IF cycle_dict[f].scalar THEN cycle_dict[f].v
                               ELSE cycle_dict[f].v[k]]]])

\* df[name] = value: a new last column with the value in every row
set_column(t, name, value) ==
  [cols |-> Append(t.cols, name),
   rows |-> [k \in 1..Len(t.rows) |->
              [c \in DOMAIN t.rows[k] \cup {name} |->
                 IF c = name THEN value ELSE t.rows[k][c]]]]

\* the schema lookup falling back to the charge fields for an unknown tag
schema_lookup_default(dtype) ==
  IF dtype \in DOMAIN DATA_FIELDS THEN Ok(DATA_FIELDS[dtype])
  ELSE Ok(DATA_FIELDS["charge"])

\* fields = DATA_FIELDS[dtype]: KeyError for a tag that is no key
schema_lookup(dtype) ==
  IF dtype \in DOMAIN DATA_FIELDS THEN Ok(DATA_FIELDS[dtype])
  ELSE Raise("KeyError", "_cycle2df")

\* the data dict built by pairing fields and entries up to the shorter of both
build_cycle_dict_zip(fields, cycle_data) ==
  LET n == IF Len(cycle_data) < Len(fields) THEN Len(cycle_data) ELSE Len(fields)
  IN Ok([f \in {fields[j] : j \in 1..n} |->
           cycle_data[CHOOSE j \in 1..n : fields[j] = f]])

\* {field: cycle_data[0][0][j][0] for j, field in enumerate(fields)}: entry j
\* of the block for field j, IndexError when the block has no entry j; entries
\* past the last field are never read
build_cycle_dict(fields, cycle_data) ==
  IF Len(cycle_data) < Len(fields) THEN Raise("IndexError", "_cycle2df")
  ELSE Ok([f \in Range(fields) |->
             cycle_data[CHOOSE j \in 1..Len(fields) : fields[j] = f]])

\* for col, data in cycle_dict.items(): if len(data) == 1: data[0] replaces it
squeeze(cycle_dict) ==
  [f \in DOMAIN cycle_dict |->
     IF Len(cycle_dict[f]) = 1
     THEN [scalar |-> TRUE, v |-> cycle_dict[f][1]]
     ELSE [scalar |-> FALSE, v |-> cycle_dict[f]]]

(***************************************************************************)
(* _cycle2df(cycle_data, meta, i): the table of cycle i.                   *)
(***************************************************************************)
_cycle2df(cycle_data, m, c) ==
  LET md == _get_metadata_at(m, c)
      fields == schema_lookup(md[1])
  IN IF ~fields.ok THEN fields
     ELSE LET cycle_dict == build_cycle_dict(fields.val, cycle_data)
          IN IF ~cycle_dict.ok THEN cycle_dict
             ELSE LET t == DataFrame(squeeze(cycle_dict.val), fields.val)
                  IN IF ~t.ok THEN t
                     ELSE Ok(set_column(
                               set_column(
                                 set_column(t.val, "type", md[1]),
                                 "start_time", md[2]),
                               "ambient_temp", md[3]))

(***************************************************************************)
(* concat(tables, ignore_index=True, sort=False): the rows of the tables   *)
(* one table after the other under a fresh index; the columns are the      *)
(* union of the tables' columns in order of first appearance, and a row    *)
(* has the missing value in every column its table lacks.  No table at     *)
(* all raises.                                                             *)
(***************************************************************************)
union_cols(a, b) == a \o SelectSeq(b, LAMBDA c : c \notin Range(a))

RECURSIVE all_cols(_)
all_cols(tables) ==
  IF tables = <<>> THEN <<>>
  ELSE union_cols(all_cols(SubSeq(tables, 1, Len(tables) - 1)),
                  tables[Len(tables)].cols)

reindex(row, cols) ==
  [c \in Range(cols) |-> IF c \in DOMAIN row THEN row[c] ELSE NaN]

RECURSIVE all_rows(_, _)
all_rows(tables, cols) ==
  IF tables = <<>> THEN <<>>
  ELSE all_rows(SubSeq(tables, 1, Len(tables) - 1), cols)
       \o [k \in 1..Len(tables[Len(tables)].rows) |->
             reindex(tables[Len(tables)].rows[k], cols)]

\* concat stacking the tables last to first
concat_reversed(tables) ==
  IF tables = <<>> THEN Raise("ValueError", "concat")
  ELSE LET rev == [k \in 1..Len(tables) |-> tables[Len(tables) + 1 - k]]
           cols == all_cols(tables)
       IN Ok([cols |-> cols, rows |-> all_rows(rev, cols)])

\* concat keeping only the columns that every table has (join="inner")
concat_inner(tables) ==
  IF tables = <<>> THEN Raise("ValueError", "concat")
  ELSE LET cols == SelectSeq(all_cols(tables),
                     LAMBDA c : \A k \in 1..Len(tables) : c \in Range(tables[k].cols))
       IN Ok([cols |-> cols, rows |-> all_rows(tables, cols)])

concat(tables) ==
  IF tables = <<>> THEN Raise("ValueError", "concat")
  ELSE LET cols == all_cols(tables)
       IN Ok([cols |-> cols, rows |-> all_rows(tables, cols)])

(***************************************************************************)
(* df.to_csv(path, index=False): a header line with the column names and   *)
(* one line per row, the cells in column order.                            *)
(***************************************************************************)
to_csv(t) ==
  [header |-> t.cols,
   lines |-> [k \in 1..Len(t.rows) |->
               [j \in 1..Len(t.cols) |-> t.rows[k][t.cols[j]]]]]

\* battery_name = 'B00' + '%02d' % i for the battery 5 of the entry point
battery_name == "B0005"

(***************************************************************************)
(* The files the transform may find at ./data/raw/B0005.mat.  A file is    *)
(* [exists, key, cycles]: key is the name of its top-level record.  A      *)
(* cycle is [type, time, ambient_temperature, data]; data is the nested    *)
(* block, a sequence of field entries, each a sequence of samples.  Sample *)
(* k of entry j of cycle c has the value c*100 + j*10 + k, so that every   *)
(* cell of the output tells where it comes from.                           *)
(***************************************************************************)
Sample(c, j, k) == c * 100 + j * 10 + k

\* a block of nf entries: the first has `first` samples, the last `last`,
\* every other one `rest`
Block(c, nf, first, rest, last) ==
  [j \in 1..nf |->
     [k \in 1..(IF j = 1 THEN first ELSE IF j = nf THEN last ELSE rest) |->
        Sample(c, j, k)]]

UnknownType == "rest"

TypeTags == DOMAIN DATA_FIELDS \cup {UnknownType}

NFields(t) == IF t \in DOMAIN DATA_FIELDS THEN Len(DATA_FIELDS[t]) ELSE 7

VecA == <<2008, 5, 22, 21, 48, 39015>>
VecB == <<2010, 9, 2, 13, 5, 0>>

Cycle(t, vec, temp, block) ==
  [type |-> t, time |-> vec, ambient_temperature |-> temp, data |-> block]

\* cycle c of a file with several cycles, for each type tag: a block as the
\* schema has it (the last field constant) under either start time, under a
\* date vector an element short, a block of one sample per field, and a
\* block an entry short
MultiCycles(c) ==
  UNION {{Cycle(t, VecA, 24, Block(c, NFields(t), MaxLen, MaxLen, 1)),
          Cycle(t, VecB, 4, Block(c, NFields(t), MaxLen, MaxLen, 1)),
          Cycle(t, SubSeq(VecA, 1, 5), 24, Block(c, NFields(t), MaxLen, MaxLen, 1)),
          Cycle(t, VecA, 24, Block(c, NFields(t), 1, 1, 1)),
          Cycle(t, VecB, 4, Block(c, NFields(t) - 1, MaxLen, MaxLen, MaxLen))} :
         t \in TypeTags}

RECURSIVE MultiLists(_)
MultiLists(n) ==
  IF n = 0 THEN {<<>>}
  ELSE {Append(p, x) : p \in MultiLists(n - 1), x \in MultiCycles(n)}

\* the date vectors of the one-cycle files: five to MaxVecLen elements
DateVecs ==
  {[k \in 1..n |-> IF k <= 6 THEN v[k] ELSE 7] :
     n \in 5..MaxVecLen,
     v \in {<<y, mo, d, h, 48, s>> :
              y \in {2008, 2010}, mo \in {2, 5, 13}, d \in {22, 30},
              h \in {0, 21}, s \in {0, 39015, 59999, 60000}}}

DateVecLists == {<<Cycle("charge", v, 24, Block(1, 6, MaxLen, MaxLen, 1))>> : v \in DateVecs}

\* the blocks of the one-cycle files: five to MaxFields entries of 0..MaxLen samples
BlockLists ==
  {<<Cycle(t, VecA, 24, Block(1, nf, a, b, c))>> :
     t \in TypeTags, nf \in 5..MaxFields,
     a \in 0..MaxLen, b \in 0..MaxLen, c \in 0..MaxLen}

CycleLists ==
  UNION {MultiLists(n) : n \in 0..MaxCycles} \cup DateVecLists \cup BlockLists

Files ==
  {[exists |-> FALSE, key |-> "", cycles |-> <<>>],
   [exists |-> TRUE, key |-> "B0006", cycles |-> <<>>]}
  \cup {[exists |-> TRUE, key |-> battery_name, cycles |-> cs] : cs \in CycleLists}

(***************************************************************************)
(* The run of the script: read_nasa(5) step by step, then to_csv.          *)
(***************************************************************************)
Init ==
  /\ file \in Files
  /\ pc = "loadmat"
  /\ meta = NoMeta
  /\ i = 0
  /\ dfs = <<>>
  /\ df = NoTable
  /\ csv = NoCsv
  /\ err = NoErr

Fail(e) ==
  /\ pc' = "failed"
  /\ err' = [exc |-> e.exc, at |-> e.at]

\* mat_contents = loadmat(file_path)
LoadMat ==
  /\ pc = "loadmat"
  /\ IF file.exists
     THEN pc' = "top_level" /\ err' = err
     ELSE Fail(Raise("FileNotFoundError", "loadmat"))
  /\ UNCHANGED <<file, meta, i, dfs, df, csv>>

\* top_level = mat_contents[battery_name]; cycles = top_level[0,0]['cycle']
TopLevel ==
  /\ pc = "top_level"
  /\ IF file.key = battery_name
     THEN pc' = "metadata" /\ err' = err
     ELSE Fail(Raise("KeyError", "read_nasa"))
  /\ UNCHANGED <<file, meta, i, dfs, df, csv>>

\* meta = _get_metadata(cycles); cycles_data = cycles['data']
GetMetadata ==
  /\ pc = "metadata"
  /\ LET r == _get_metadata(file.cycles)
     IN IF r.ok
        THEN meta' = r.val /\ pc' = "cycles" /\ err' = err
        ELSE meta' = meta /\ Fail(r)
  /\ UNCHANGED <<file, i, dfs, df, csv>>

\* the list comprehension skipping a cycle whose flattening raises
FlattenCycle_skip ==
  /\ pc = "cycles"
  /\ i < Len(file.cycles)
  /\ LET r == _cycle2df(file.cycles[i + 1].data, meta, i + 1)
     IN dfs' = IF r.ok THEN Append(dfs, r.val) ELSE dfs
  /\ i' = i + 1
  /\ UNCHANGED <<file, pc, meta, df, csv, err>>

\* one element of [DataFrame(_cycle2df(cycles_data[0,i], meta, i)) for i in ...]
FlattenCycle ==
  /\ pc = "cycles"
  /\ i < Len(file.cycles)
  /\ LET r == _cycle2df(file.cycles[i + 1].data, meta, i + 1)
     IN IF r.ok
        THEN dfs' = Append(dfs, r.val) /\ i' = i + 1 /\ pc' = pc /\ err' = err
        ELSE dfs' = dfs /\ i' = i /\ Fail(r)
  /\ UNCHANGED <<file, meta, df, csv>>

\* df = concat([...], ignore_index=True, sort=False); return df
Concat ==
  /\ pc = "cycles"
  /\ i = Len(file.cycles)
  /\ LET r == concat(dfs)
     IN IF r.ok
        THEN df' = r.val /\ pc' = "returned" /\ err' = err
        ELSE df' = df /\ Fail(r)
  /\ UNCHANGED <<file, meta, i, dfs, csv>>

\* df.to_csv('./data/processed/B0005.csv', index=False)
ToCsv ==
  /\ pc = "returned"
  /\ csv' = to_csv(df)
  /\ pc' = "written"
  /\ UNCHANGED <<file, meta, i, dfs, df, err>>

Next == LoadMat \/ TopLevel \/ GetMetadata \/ FlattenCycle \/ Concat \/ ToCsv

Spec == Init /\ [][Next]_vars

(***************************************************************************)
(* Vocabulary of the properties.                                           *)
(***************************************************************************)
NCycles == Len(file.cycles)

Known(c) == file.cycles[c].type \in DOMAIN DATA_FIELDS

\* _get_metadata has returned
MetaExtracted ==
  \/ pc \in {"cycles", "returned", "written"}
  \/ pc = "failed" /\ err.at \in {"_cycle2df", "DataFrame", "concat"}

\* read_nasa has returned its table
Returned == pc \in {"returned", "written"}

\* the call of _cycle2df for cycle c raised
RaisedAt(c) ==
  pc = "failed" /\ err.at \in {"_cycle2df", "DataFrame"} /\ c = i + 1

\* the nested block of cycle c has been passed to _cycle2df
Passed(c) == MetaExtracted /\ (c <= Len(dfs) \/ RaisedAt(c))

RECURSIVE RowsBefore(_)
RowsBefore(c) == IF c <= 1 THEN 0 ELSE RowsBefore(c - 1) + Len(dfs[c - 1].rows)

MaxOf(S) == CHOOSE x \in S : \A y \in S : y <= x

\* a vector datetime accepts: six elements within the calendar's ranges
ValidVec(v) ==
  /\ Len(v) = 6
  /\ datetime(v[1], v[2], v[3], v[4], v[5], v[6] \div 1000, 0).ok

(***************************************************************************)
(* C1: for every valid six-element date vector the timestamp has the       *)
(* vector's year, month, day, hour, minute and whole second, and its       *)
(* sub-second part is floor((s - floor(s)) * 1000) milliseconds, that is   *)
(* 1000 times as many microseconds.                                        *)
(***************************************************************************)
C1_DatevecMilliseconds ==
  MetaExtracted =>
    \A c \in 1..NCycles :
      LET v == file.cycles[c].time
          t == meta.start_times[c]
      IN ValidVec(v) =>
           /\ t.year = v[1] /\ t.month = v[2] /\ t.day = v[3]
           /\ t.hour = v[4] /\ t.minute = v[5] /\ t.second = v[6] \div 1000
           /\ t.microsecond = (v[6] % 1000) * 1000

(***************************************************************************)
(* C2 as stated: a block whose number of entries differs from the length   *)
(* of DATA_FIELDS[type], in either direction, yields no table.             *)
(***************************************************************************)
C2_AnyMismatchFails ==
  \A c \in 1..Len(dfs) :
    Len(file.cycles[c].data) = Len(DATA_FIELDS[file.cycles[c].type])

(***************************************************************************)
(* C2 amended: a block with fewer entries than DATA_FIELDS[type] makes     *)
(* _cycle2df raise and the run fail without a table; entries past the      *)
(* schema's length are never read: the table of a longer block is built    *)
(* from its first len(DATA_FIELDS[type]) entries, field j from entry j.    *)
(***************************************************************************)
C2_ShortBlockFails ==
  \A c \in 1..NCycles :
    (Passed(c) /\ Known(c)) =>
      LET fields == DATA_FIELDS[file.cycles[c].type]
          data == file.cycles[c].data
      IN /\ Len(data) < Len(fields) =>
              /\ RaisedAt(c)
              /\ Len(dfs) < c /\ df = NoTable /\ csv = NoCsv
         /\ c <= Len(dfs) =>
              /\ Len(data) >= Len(fields)
              /\ dfs[c].cols = fields \o META_COLS
              /\ \A k \in 1..Len(dfs[c].rows) : \A j \in 1..Len(fields) :
                    dfs[c].rows[k][fields[j]] \in Range(data[j])

C2_Witness ==
  /\ pc = "failed" /\ err = [exc |-> "IndexError", at |-> "_cycle2df"]
  /\ Known(i + 1)
  /\ Len(file.cycles[i + 1].data) < Len(DATA_FIELDS[file.cycles[i + 1].type])

(***************************************************************************)
(* C3: the table returned for a cycle of a known type with the expected    *)
(* number of entries has as many rows as the longest field sequence of a   *)
(* length other than 1, and every one-element field holds its one value in *)
(* every row.                                                              *)
(***************************************************************************)
C3_RowCountAndBroadcast ==
  \A c \in 1..Len(dfs) :
    LET fields == DATA_FIELDS[file.cycles[c].type]
        data == file.cycles[c].data
        lens == {Len(data[j]) : j \in {x \in 1..Len(fields) : Len(data[x]) # 1}}
    IN Len(data) = Len(fields) =>
         /\ lens # {}
         /\ Len(dfs[c].rows) = MaxOf(lens)
         /\ \A j \in 1..Len(fields) : Len(data[j]) = 1 =>
               \A k \in 1..Len(dfs[c].rows) : dfs[c].rows[k][fields[j]] = data[j][1]

\* a discharge cycle of two-sample fields and a one-element Capacity
C3_Witness ==
  /\ Len(dfs) >= 1
  /\ file.cycles[1].type = "discharge"
  /\ Len(file.cycles[1].data) = 7
  /\ Len(file.cycles[1].data[1]) = 2
  /\ Len(file.cycles[1].data[7]) = 1
  /\ Len(dfs[1].rows) = 2
  /\ dfs[1].rows[2]["Capacity"] = file.cycles[1].data[7][1]

(***************************************************************************)
(* C4 as stated: a date vector with fewer or with more than six elements   *)
(* is not converted.                                                       *)
(***************************************************************************)
C4_AnyWrongCountFails ==
  MetaExtracted => \A c \in 1..NCycles : Len(file.cycles[c].time) = 6

(***************************************************************************)
(* C4 amended: a date vector with fewer than six elements makes            *)
(* _datevec2datetime raise and no timestamp is returned; of a vector with  *)
(* more than six elements the first six are converted and the others are   *)
(* ignored.                                                                *)
(***************************************************************************)
C4_ShortVecFails ==
  /\ (pc \notin {"loadmat", "top_level", "metadata"}
        /\ \E c \in 1..NCycles : Len(file.cycles[c].time) < 6)
       => (pc = "failed" /\ err.at = "_get_metadata" /\ meta = NoMeta)
  /\ MetaExtracted =>
       \A c \in 1..NCycles :
         LET v == file.cycles[c].time
             t == meta.start_times[c]
         IN /\ Len(v) >= 6
            /\ t.year = v[1] /\ t.month = v[2] /\ t.day = v[3]
            /\ t.hour = v[4] /\ t.minute = v[5] /\ t.second = v[6] \div 1000

C4_Witness ==
  /\ pc = "failed" /\ err = [exc |-> "IndexError", at |-> "_get_metadata"]
  /\ \E c \in 1..NCycles : Len(file.cycles[c].time) < 6

(***************************************************************************)
(* C5: the rows of the returned table are the rows of cycle 1, then those  *)
(* of cycle 2, and so on, each cycle's rows in sample order, none dropped  *)
(* and none repeated.                                                      *)
(***************************************************************************)
C5_CycleOrderPreserved ==
  Returned =>
    /\ Len(dfs) = NCycles
    /\ Len(df.rows) = RowsBefore(NCycles + 1)
    /\ \A c \in 1..NCycles :
         LET fields == DATA_FIELDS[file.cycles[c].type]
             data == file.cycles[c].data
         IN \A k \in 1..Len(dfs[c].rows) :
              LET r == df.rows[RowsBefore(c) + k]
              IN \A j \in 1..Len(fields) :
                   r[fields[j]] = IF Len(data[j]) = 1 THEN data[j][1] ELSE data[j][k]

C5_Witness ==
  /\ Returned
  /\ NCycles >= 2
  /\ Len(dfs[1].rows) >= 2 /\ Len(dfs[2].rows) >= 2
  /\ file.cycles[1].type # file.cycles[2].type

(***************************************************************************)
(* C6: the three metadata lists have one entry per cycle, entry i taken    *)
(* from source cycle i, and every row produced from cycle i carries        *)
(* (types[i], start_times[i], ambient_temps[i]).                           *)
(***************************************************************************)
C6_RowsCarryMetadata ==
  MetaExtracted =>
    /\ Len(meta.types) = NCycles
    /\ Len(meta.start_times) = NCycles
    /\ Len(meta.ambient_temps) = NCycles
    /\ \A c \in 1..NCycles :
         /\ meta.types[c] = file.cycles[c].type
         /\ meta.ambient_temps[c] = file.cycles[c].ambient_temperature
         /\ meta.start_times[c].year = file.cycles[c].time[1]
         /\ meta.start_times[c].hour = file.cycles[c].time[4]
    /\ \A c \in 1..Len(dfs) : \A k \in 1..Len(dfs[c].rows) :
         /\ dfs[c].rows[k]["type"] = meta.types[c]
         /\ dfs[c].rows[k]["start_time"] = meta.start_times[c]
         /\ dfs[c].rows[k]["ambient_temp"] = meta.ambient_temps[c]
    /\ Returned =>
         \A c \in 1..Len(dfs) : \A k \in 1..Len(dfs[c].rows) :
           /\ df.rows[RowsBefore(c) + k]["type"] = meta.types[c]
           /\ df.rows[RowsBefore(c) + k]["start_time"] = meta.start_times[c]
           /\ df.rows[RowsBefore(c) + k]["ambient_temp"] = meta.ambient_temps[c]

C6_Witness ==
  /\ Returned
  /\ NCycles >= 2
  /\ Len(dfs[2].rows) >= 2
  /\ meta.types[1] # meta.types[2]
  /\ meta.start_times[1] # meta.start_times[2]
  /\ meta.ambient_temps[1] # meta.ambient_temps[2]

(***************************************************************************)
(* C7: a cycle with a type tag outside the schema table is never skipped:  *)
(* no table is made for it or for a later cycle, the call of _cycle2df for *)
(* it raises KeyError, and no table is returned and no file written.       *)
(***************************************************************************)
C7_UnknownTypeFails ==
  \A c \in 1..NCycles :
    ~Known(c) =>
      /\ Len(dfs) < c /\ i < c
      /\ ~Returned /\ df = NoTable /\ csv = NoCsv
      /\ Passed(c) => (pc = "failed" /\ err.exc = "KeyError")

\* the unknown cycle comes after a cycle that was flattened
C7_Witness ==
  /\ pc = "failed" /\ err = [exc |-> "KeyError", at |-> "_cycle2df"]
  /\ i >= 1 /\ Len(dfs) = i
  /\ ~Known(i + 1)

(***************************************************************************)
(* C8: an output file exists only when the load, the key lookup, the       *)
(* metadata extraction and the flattening of every cycle have succeeded,   *)
(* and it then holds the rows of all the cycles; a failed run has written  *)
(* nothing.                                                                *)
(***************************************************************************)
C8_NoPartialOutput ==
  /\ pc = "failed" => (csv = NoCsv /\ df = NoTable /\ err # NoErr)
  /\ csv # NoCsv =>
       /\ pc = "written" /\ err = NoErr
       /\ file.exists /\ file.key = battery_name
       /\ Len(meta.start_times) = NCycles
       /\ i = NCycles /\ Len(dfs) = NCycles
       /\ \A c \in 1..NCycles : _cycle2df(file.cycles[c].data, meta, c).ok
       /\ Len(csv.lines) = RowsBefore(NCycles + 1)

\* a cycle fails after another one was flattened, and nothing is written
C8_Witness ==
  /\ pc = "failed" /\ err.at \in {"_cycle2df", "DataFrame"}
  /\ Len(dfs) >= 1 /\ Len(dfs[1].rows) >= 1
  /\ csv = NoCsv

(***************************************************************************)
(* C9: the columns of the returned table are the union of the columns of   *)
(* the per-cycle tables; a row has a value in the fields of                *)
(* DATA_FIELDS[type] of its own cycle and in the three metadata columns,   *)
(* and the missing value in every other column.                            *)
(***************************************************************************)
C9_RowsKeepOwnSchema ==
  Returned =>
    /\ Range(df.cols) = UNION {Range(dfs[c].cols) : c \in 1..Len(dfs)}
    /\ Range(df.cols) =
         UNION {Range(DATA_FIELDS[file.cycles[c].type]) : c \in 1..NCycles}
           \cup Range(META_COLS)
    /\ \A c \in 1..Len(dfs) : \A k \in 1..Len(dfs[c].rows) :
         LET r == df.rows[RowsBefore(c) + k]
             own == Range(DATA_FIELDS[file.cycles[c].type])
         IN /\ DOMAIN r = Range(df.cols)
            /\ \A col \in Range(df.cols) \ Range(META_COLS) :
                 IF col \in own THEN r[col] # NaN ELSE r[col] = NaN
            /\ r["type"] = file.cycles[c].type
            /\ r["start_time"] = meta.start_times[c]
            /\ r["ambient_temp"] = file.cycles[c].ambient_temperature

\* a charge row without the impedance fields, an impedance row without Time
C9_Witness ==
  /\ Returned
  /\ \E k, l \in 1..Len(df.rows) :
       /\ df.rows[k]["type"] = "charge"
       /\ "Re" \in DOMAIN df.rows[k] /\ df.rows[k]["Re"] = NaN
       /\ df.rows[k]["Time"] # NaN
       /\ df.rows[l]["type"] = "impedance"
       /\ df.rows[l]["Re"] # NaN
       /\ df.rows[l]["Time"] = NaN

(***************************************************************************)
(* C10: a cycle of a known type whose fields all have exactly one element  *)
(* gets a table of one row, and the transform goes on.                     *)
(***************************************************************************)
C10_SingleSampleOneRow ==
  \A c \in 1..NCycles :
    LET data == file.cycles[c].data
    IN (/\ Passed(c) /\ Known(c)
        /\ Len(data) = Len(DATA_FIELDS[file.cycles[c].type])
        /\ \A j \in 1..Len(data) : Len(data[j]) = 1)
       => (c <= Len(dfs) /\ Len(dfs[c].rows) = 1)

====
